---------------------------- MODULE Spec2Model ----------------------------
(***************************************************************************)
(* A model of the ReAct agent loop of the SJSU Virtual Assistant           *)
(* (src/src/agent/agent_orchestrator.py): AgentOrchestrator.run(), the     *)
(* response parser, the relevance fallback, the answer formatter and the   *)
(* session operations.                                                     *)
(*                                                                         *)
(* Texts.  A Python str is modelled as a sequence of tokens.  A token is   *)
(* a structural label of the ReAct format ("Action:", "Action Input:",     *)
(* "Final Answer:", "Observation:", "Thought:"), a newline, a quote        *)
(* character, or a word.  Two tokens that follow each other on one line    *)
(* are separated by a blank (a quote character stands next to its          *)
(* neighbours without one); the newline token is the only white space      *)
(* that is written out.  The empty sequence is the empty str "".           *)
(*                                                                         *)
(* Optional values.  Python's None is the empty tuple << >> and a value v  *)
(* that is present is the one-element tuple << v >>, so that None and ""   *)
(* stay different, as they are in the code ("is not None" against          *)
(* truthiness).                                                            *)
(***************************************************************************)
EXTENDS Naturals, Integers, Sequences, FiniteSets, TLC

VARIABLES
    max_iterations,        \* self.max_iterations
    conversation_history,  \* self.conversation_history
    pc,                    \* where run() is: "idle", "loop", "returned"
    query,                 \* run(): the query argument
    context,               \* run(): the context argument
    reasoning_steps,       \* run(): reasoning_steps
    iteration,             \* run(): iteration
    final_answer,          \* run(): final_answer
    user_prompt,           \* run(): user_prompt
    loop_exit,             \* run(): how the while loop was left
    result,                \* the dict run() returned
    llm_calls,             \* the calls of llm_client.generate of this run
    tool_calls,            \* the calls of tools[...].execute of this run
    runs,                  \* runs started so far
    response_text,         \* _parse_response(): its argument
    parsed,                \* _parse_response(): its returned tuple
    snapshots,             \* the lists get_conversation_history() returned
    db_observation,        \* relevance check: the database observation
    fallback,              \* relevance check: should_fallback and the web query
    runs_since_reset,      \* history: run() calls completed since the last
                           \* reset_conversation() (or construction)
    session_state          \* streamlit_app.py: st.session_state (messages and
                           \* conversation_history)

vars == << max_iterations, conversation_history, pc, query, context,
           reasoning_steps, iteration, final_answer, user_prompt, loop_exit,
           result, llm_calls, tool_calls, runs, response_text, parsed,
           snapshots, db_observation, fallback, runs_since_reset, session_state >>

---------------------------------------------------------------------------
(* Bounds of the exploration. *)

\* largest max_iterations an orchestrator is constructed with
MaxIterations == 3
\* run() calls explored on one orchestrator
MaxRuns == 2
\* model calls explored on one orchestrator: its runs times its max_iterations
MaxCalls == 3
\* longest text (in tokens) handed to _parse_response on its own
MaxLen == 4
\* most lines of a text of whole lines handed to _parse_response on its own
MaxLines == 5

---------------------------------------------------------------------------
(* Optional values and Python truthiness. *)

None == << >>
Some(v) == << v >>
IsNone(o) == o = None
\* bool(x) for x an optional text: None and "" are false
Truthy(o) == o # None /\ o[1] # << >>
\* x or default
OrElse(o, default) == IF Truthy(o) THEN o[1] ELSE default

Range(s) == { s[i] : i \in DOMAIN s }
Min(S) == CHOOSE x \in S : \A y \in S : x <= y
Take(s, n) == SubSeq(s, 1, IF Len(s) < n THEN Len(s) ELSE n)

\* streamlit_app.py, initialize_session_state: no message, no history
NewSession == [ messages |-> << >>, conversation_history |-> << >> ]

---------------------------------------------------------------------------
(* Tokens. *)

LblAction  == "Action:"
LblInput   == "Action Input:"
LblFinal   == "Final Answer:"
LblObs     == "Observation:"
LblThought == "Thought:"
NL         == "<newline>"
Quote      == "<quote>"

Labels == { LblAction, LblInput, LblFinal, LblObs, LblThought }

\* str.strip(): leading and trailing white space removed
RECURSIVE StripLeft(_)
StripLeft(s) == IF s # << >> /\ Head(s) = NL THEN StripLeft(Tail(s)) ELSE s
RECURSIVE StripRight(_)
StripRight(s) ==
    IF s # << >> /\ s[Len(s)] = NL THEN StripRight(SubSeq(s, 1, Len(s) - 1)) ELSE s
Strip(s) == StripRight(StripLeft(s))

\* str.strip('"\''): leading and trailing quote characters removed
RECURSIVE StripQuotesLeft(_)
StripQuotesLeft(s) ==
    IF s # << >> /\ Head(s) = Quote THEN StripQuotesLeft(Tail(s)) ELSE s
RECURSIVE StripQuotesRight(_)
StripQuotesRight(s) ==
    IF s # << >> /\ s[Len(s)] = Quote
    THEN StripQuotesRight(SubSeq(s, 1, Len(s) - 1)) ELSE s
StripQuotes(s) == StripQuotesRight(StripQuotesLeft(s))

\* the first position >= i of s that holds no white space (Len(s)+1: none)
SkipWS(s, i) ==
    Min({ k \in i..(Len(s) + 1) : k = Len(s) + 1 \/ s[k] # NL })

---------------------------------------------------------------------------
(* _parse_response *)

\* what \w+ matches at the start of a token: a word whole, a label up to
\* its first blank or colon; nothing at a quote or at white space
StartsWithWord(tok) == tok \notin { NL, Quote }
WordChars(tok) ==
    CASE tok = LblAction  -> "Action"
      [] tok = LblInput   -> "Action"
      [] tok = LblFinal   -> "Final"
      [] tok = LblObs     -> "Observation"
      [] tok = LblThought -> "Thought"
      [] OTHER            -> tok

\* re.search(r'Action:\s*(\w+)', response): the positions of an "Action:"
\* label that white space and then a word character follow
ActionMatches(text) ==
    { i \in DOMAIN text :
        /\ text[i] = LblAction
        /\ SkipWS(text, i + 1) <= Len(text)
        /\ StartsWithWord(text[SkipWS(text, i + 1)]) }

\* a parser that takes a text without an action for a database lookup
ParseActionDefault(text) ==
    IF ActionMatches(text) = {} THEN Some("database_query")
    ELSE Some(WordChars(text[SkipWS(text, Min(ActionMatches(text)) + 1)]))

\* action = action_match.group(1).strip(), or None without a match
ParseAction(text) ==
    IF ActionMatches(text) = {} THEN None
    ELSE Some(WordChars(text[SkipWS(text, Min(ActionMatches(text)) + 1)]))

\* the tail of the Action Input pattern,
\*   ["\']?\s*(?:\n\s*(?:Observation|Thought|Final Answer|Action)|\Z),
\* matched from position p on
InputTail(text, p) ==
    LET p1 == IF p <= Len(text) /\ text[p] = Quote THEN p + 1 ELSE p
        q  == SkipWS(text, p1)
    IN  \/ q > Len(text)
        \/ q > p1 /\ text[q] \in Labels

\* len(action_input) > 200: action_input[:200]; a token is one character
\* or more, and the texts explored stay far below the limit
InputLimit == 200

\* lines 388-389: re.sub(r'\s*<label>\s*:.*$', '', action_input): the text
\* from the first label on is dropped, with the white space before it
CutAt(s, label) ==
    IF label \in Range(s)
    THEN StripRight(SubSeq(s, 1, Min({ i \in DOMAIN s : s[i] = label }) - 1))
    ELSE s

\* lines 384-394: action_input, or None without a match
ParseActionInput(text) ==
    LET js == { j \in DOMAIN text : text[j] = LblInput /\ j < Len(text) }
    IN  IF js = {} THEN None
        ELSE LET j  == Min(js)
                 s0 == SkipWS(text, j + 1)
             IN  IF s0 > Len(text)
                 THEN Some(<< >>)  \* white space only: group(1).strip() = ""
                 ELSE LET s  == IF text[s0] = Quote /\ s0 < Len(text)
                                THEN s0 + 1 ELSE s0
                          e  == Min({ k \in s..Len(text) : InputTail(text, k + 1) })
                          g  == Strip(SubSeq(text, s, e))
                          c1 == CutAt(g, LblObs)
                          c2 == CutAt(c1, LblThought)
                      IN  Some(Take(StripQuotes(c2), InputLimit))

FinalAnswerAction == "Final Answer"
DefaultActionInput == << "SJSU", "information" >>

\* re.search(r'Final Answer:\s*(.+)', response): needs one character after
\* the label; group(1).strip()
FinalMatches(text) ==
    { f \in DOMAIN text : text[f] = LblFinal /\ f < Len(text) }
\* the text after the marker, not stripped
FinalTextUnstripped(text) ==
    SubSeq(text, Min(FinalMatches(text)) + 1, Len(text))
FinalText(text) ==
    Strip(SubSeq(text, Min(FinalMatches(text)) + 1, Len(text)))

\* _parse_response: (action, action_input, observation)
ParseResponse(text) ==
    LET action       == ParseAction(text)
        action_input == ParseActionInput(text)
    IN  IF action # None /\ Truthy(action_input)
        THEN << action, action_input, None >>
        ELSE IF LblFinal \in Range(text) /\ FinalMatches(text) # {}
        THEN << Some(FinalAnswerAction), None, Some(FinalText(text)) >>
        ELSE IF action # None /\ ~Truthy(action_input)
        THEN << action, Some(DefaultActionInput), None >>
        ELSE << action, action_input, None >>

---------------------------------------------------------------------------
(* Words of a text: str.lower(), str.split(), str.strip('?.,!'). *)

\* the fixed texts of the code, one token each
MostRelevant    == ">>> MOST RELEVANT ANSWER >>>"
NoInfoFound     == "No information found"
NoRelevantInfo  ==
    "No relevant information found in the database. This course may not be in our records."
SummaryLbl      == "Summary:"
ResultLbl       == "Result 1:"
FewShotExample  == "<few-shot example>"
RecentHeader    == "Recent conversation for context:"
QuestionLbl     == "Question:"
ContextLbl      == "Additional Context:"
ContinueLbl     == "Continue reasoning:"
SystemPrompt    == "<system prompt>"
Apology         == "I apologize, but I couldn't generate a proper response."
UnableToRespond == "Unable to respond"
UnableToGenerate == "Unable to generate response"
CouldNotFind    ==
    "I couldn't find specific information about this. Please check sjsu.edu or contact the university directly."
ErrorGenerating == "Error generating response:"
CouldNotFormat  ==
    "I found relevant information but couldn't format it properly. Please try rephrasing your question."

\* text.lower().split(), each word stripped of '?.,!': the words of one token
WordsOf(tok) ==
    CASE tok = "CMPE"          -> { "cmpe" }
      [] tok = "SJSU"          -> { "sjsu" }
      [] tok = "parking?"      -> { "parking" }
      [] tok = NL              -> { }
      [] tok = Quote           -> { "'" }
      [] tok = LblAction       -> { "action:" }
      [] tok = LblInput        -> { "action", "input:" }
      [] tok = LblFinal        -> { "final", "answer:" }
      [] tok = LblObs          -> { "observation:" }
      [] tok = LblThought      -> { "thought:" }
      [] tok = MostRelevant    -> { ">>>", "most", "relevant", "answer" }
      [] tok = NoInfoFound     -> { "no", "information", "found" }
      [] tok = NoRelevantInfo  ->
             { "no", "relevant", "information", "found", "in", "the", "database",
               "this", "course", "may", "not", "be", "our", "records" }
      [] tok = SummaryLbl      -> { "summary:" }
      [] tok = ResultLbl       -> { "result", "1:" }
      [] tok = Apology         ->
             { "i", "apologize", "but", "couldn't", "generate", "a", "proper",
               "response" }
      [] tok = ErrorGenerating -> { "error", "generating", "response:" }
      [] tok = UnableToRespond -> { "unable", "to", "respond" }
      [] tok = UnableToGenerate -> { "unable", "to", "generate", "response" }
      [] tok = CouldNotFind    ->
             { "i", "couldn't", "find", "specific", "information", "about",
               "this", "please", "check", "sjsu.edu", "or", "contact", "the",
               "university", "directly" }
      [] tok = CouldNotFormat  ->
             { "i", "found", "relevant", "information", "but", "couldn't",
               "format", "it", "properly", "please", "try", "rephrasing",
               "your", "question" }
      [] OTHER                 -> { tok }

\* the words of a text
WordsIn(text) == UNION { WordsOf(text[i]) : i \in DOMAIN text }

\* word in text.lower(): the substring test, on the words of the vocabulary
\* (none of which is part of another)
ContainsWord(text, word) == word \in WordsIn(text)

\* len(query.split())
RECURSIVE WordCount(_)
WordCount(text) ==
    IF text = << >> THEN 0
    ELSE (IF Head(text) = NL THEN 0 ELSE 1) + WordCount(Tail(text))

---------------------------------------------------------------------------
(* The relevance fallback of run(), lines 119-212. *)

stop_words ==
    { "what", "where", "when", "how", "who", "which", "is", "are", "was", "were",
      "the", "a", "an", "to", "for", "of", "in", "on", "at", "by", "with",
      "do", "does", "did", "can", "could", "would", "should", "will",
      "i", "me", "my", "need", "want", "get", "find", "about", "tell",
      "sjsu", "san", "jose", "state", "university", "enroll", "apply",
      "requirements", "requirement", "program", "course", "class" }

\* len(word) > 2 is asked of the word as split, the stop-word test of the
\* word stripped of its punctuation
MinQueryWordLen == 2
query_words(q) ==
    UNION { { w \in WordsOf(q[i]) : w \notin stop_words } :
            i \in { k \in DOMAIN q : Len(q[k]) > MinQueryWordLen } }

\* matches = sum(1 for word in query_words if word in obs_lower)
matches(q, observation) ==
    Cardinality({ w \in query_words(q) : ContainsWord(observation, w) })

\* the last n entries of a list: list[-n:]
LastN(s, n) == IF Len(s) <= n THEN s ELSE SubSeq(s, Len(s) - n + 1, Len(s))

\* lines 159-165: the terms of the last two turns, longer than 3 characters
MinConvTermLen == 3
conv_terms(history) ==
    { w \in UNION { WordsIn(LastN(history, 2)[i].content) :
                    i \in DOMAIN LastN(history, 2) } :
        Len(w) > MinConvTermLen /\ w \notin stop_words }

conv_matches(history, observation) ==
    Cardinality({ t \in conv_terms(history) : ContainsWord(observation, t) })

\* lines 151 and 169: matches < len(query_words) * 0.5 and
\* conv_matches < len(conv_terms) * 0.3, in whole numbers
HalfDen == 2
ConvNum == 3
ConvDen == 10
VagueQueryWords == 5

\* a keyword trigger that also fires when exactly half of the terms are found
KeywordFallbackAtHalf(q, observation) ==
    /\ query_words(q) # {}
    /\ HalfDen * matches(q, observation) <= Cardinality(query_words(q))

\* Case 2, second half: the keyword-overlap trigger
KeywordFallback(q, observation) ==
    /\ query_words(q) # {}
    /\ HalfDen * matches(q, observation) < Cardinality(query_words(q))

\* Case 2, last part: the conversation-context trigger
ConversationFallback(q, observation, history) ==
    /\ WordCount(q) <= VagueQueryWords
    /\ history # << >>
    /\ conv_terms(history) # {}
    /\ ConvDen * conv_matches(history, observation)
         < ConvNum * Cardinality(conv_terms(history))

\* lines 121-171: should_fallback
should_fallback(q, observation, history) ==
    IF NoInfoFound \in Range(observation)
    THEN TRUE
    ELSE \/ KeywordFallback(q, observation)
         \/ ConversationFallback(q, observation, history)

\* lines 122-171: fallback_reason, without the terms it lists
fallback_reason(q, observation, history) ==
    IF NoInfoFound \in Range(observation) THEN "no results"
    ELSE IF KeywordFallback(q, observation) THEN "query terms not in results"
    ELSE IF ConversationFallback(q, observation, history)
         THEN "conversation context not in results"
    ELSE ""

location_words ==
    << "where", "location", "building", "address", "find", "directions", "located" >>

\* lines 185-187: every location word and filler is replaced by a blank and
\* the blanks are collapsed; "?" is among the fillers
subject_fillers == Range(location_words) \cup { "the", "is", "are", "sjsu", "what" }
Unquestion(tok) == IF tok = "parking?" THEN "parking" ELSE tok
Lower(tok) == IF tok = "CMPE" THEN "cmpe" ELSE IF tok = "SJSU" THEN "sjsu" ELSE tok
RECURSIVE subject_of(_)
subject_of(q) ==
    IF q = << >> THEN << >>
    ELSE IF Head(q) = NL \/ Lower(Head(q)) \in subject_fillers
         THEN subject_of(Tail(q))
         ELSE << Unquestion(Lower(Head(q))) >> \o subject_of(Tail(q))

\* len(subject): the characters of the words and the blanks between them
RECURSIVE CharLen(_)
CharLen(text) ==
    IF text = << >> THEN 0
    ELSE Len(Head(text)) + (IF Len(text) > 1 THEN 1 ELSE 0) + CharLen(Tail(text))

\* lines 190-208: the subject found in the most recent of the last four turns
key_subjects == << "financial aid", "housing", "parking", "registrar", "bookstore" >>
MinSubjectLen == 3
RecentTurns == 4
SubjectIn(content) ==
    LET hits == { k \in DOMAIN key_subjects : ContainsWord(content, key_subjects[k]) }
    IN  IF hits = {} THEN None ELSE Some(key_subjects[Min(hits)])
RECURSIVE RecoverSubject(_, _)
RecoverSubject(turns, subject) ==
    IF turns = << >> THEN subject
    ELSE IF SubjectIn(turns[Len(turns)].content) # None
         THEN << SubjectIn(turns[Len(turns)].content)[1] >>
         ELSE RecoverSubject(SubSeq(turns, 1, Len(turns) - 1), subject)

\* a fallback that searches for the query as it stands
RawQuery(q, history) == q
\* lines 177-212: web_search_query
web_search_query(q, history) ==
    IF \E k \in DOMAIN location_words : ContainsWord(q, location_words[k])
    THEN LET subject == subject_of(q)
             found   == IF CharLen(subject) < MinSubjectLen /\ history # << >>
                        THEN RecoverSubject(LastN(history, RecentTurns), subject)
                        ELSE subject
         IN  << "SJSU" >> \o found \o << "office", "location", "address", "building" >>
    ELSE << "SJSU" >> \o q


---------------------------------------------------------------------------
(* _format_observation_as_answer *)

RemoveAll(s, tok) == SelectSeq(s, LAMBDA t : t # tok)

\* cleaned[:500] + "...": a token is one character or more, and the
\* observations explored stay far below the limit
AnswerLimit == 500

\* lines 434-443: re.search(r'Summary:\s*(.+?)(?:\n\s*Result \d+:|\Z)'), which
\* needs one character after the label; the summary ends before the first
\* "Result N:" that starts a line.  No observation explored holds a URL.
SummaryMatches(obs) == { i \in DOMAIN obs : obs[i] = SummaryLbl /\ i < Len(obs) }
SummaryText(obs) ==
    LET i    == Min(SummaryMatches(obs))
        s0   == SkipWS(obs, i + 1)
        from == IF s0 > Len(obs) THEN Len(obs) ELSE s0
        ends == { k \in from..Len(obs) :
                    \/ k = Len(obs)
                    \/ /\ obs[k + 1] = NL
                       /\ SkipWS(obs, k + 1) <= Len(obs)
                       /\ obs[SkipWS(obs, k + 1)] = ResultLbl }
    IN  Strip(SubSeq(obs, from, Min(ends)))

\* lines 528-539: the markers removed, the text stripped and cut
CleanedText(obs) ==
    LET cleaned == Strip(RemoveAll(obs, MostRelevant))
    IN  IF Len(cleaned) > AnswerLimit
        THEN Take(cleaned, AnswerLimit) \o << "..." >>
        ELSE cleaned

\* _format_observation_as_answer, on observations whose only shape marker
\* is "Summary:" (the other shapes, lines 446-526, each need a marker of
\* their own: "Content:", "Q:", "Prerequisites:", "Scholarship:", "Club:",
\* "Deadline:", "Resource:", "Program:")
_format_observation_as_answer(obs) ==
    IF SummaryLbl \in Range(obs) /\ SummaryMatches(obs) # {}
    THEN SummaryText(obs)
    ELSE IF CleanedText(obs) # << >> THEN CleanedText(obs) ELSE << CouldNotFormat >>

---------------------------------------------------------------------------
(* Prompts. *)

\* str.capitalize() of a role
Capitalize(role) == IF role = "user" THEN "User:" ELSE "Assistant:"

\* msg.get('content', '')[:200]
ContextLimit == 200

\* _build_system_prompt
_build_system_prompt == << SystemPrompt >>

\* _build_user_prompt
_build_user_prompt(q, ctx, history) ==
    LET recent == LastN(history, 2)
        turn(i) == << Capitalize(recent[i].role) >>
                     \o Take(recent[i].content, ContextLimit) \o << NL >>
        recent_context ==
            IF history # << >> /\ Len(history) >= 2
            THEN << RecentHeader, NL >> \o turn(1) \o turn(2) \o << NL >>
            ELSE << >>
    IN  << FewShotExample >> \o recent_context
          \o << QuestionLbl >> \o q \o << NL, NL >>
          \o (IF Truthy(ctx) THEN << ContextLbl >> \o ctx[1] \o << NL, NL >> ELSE << >>)
          \o << LblThought >>

\* an update that keeps the latest block only
UpdatePromptReplaces(current_prompt, step) ==
    << NL, NL, LblThought >> \o step.thought
      \o (IF step.action # None /\ step.action[1] # ""
          THEN << NL, LblAction, step.action[1] >> ELSE << >>)
      \o (IF Truthy(step.action_input)
          THEN << NL, LblInput >> \o step.action_input[1] ELSE << >>)
      \o (IF Truthy(step.observation)
          THEN << NL, LblObs >> \o step.observation[1] ELSE << >>)
      \o << NL, NL, ContinueLbl >>

\* _update_prompt; a step's action is a str or None, its other fields are
\* texts or None
_update_prompt(current_prompt, step) ==
    current_prompt
      \o << NL, NL, LblThought >> \o step.thought
      \o (IF step.action # None /\ step.action[1] # ""
          THEN << NL, LblAction, step.action[1] >> ELSE << >>)
      \o (IF Truthy(step.action_input)
          THEN << NL, LblInput >> \o step.action_input[1] ELSE << >>)
      \o (IF Truthy(step.observation)
          THEN << NL, LblObs >> \o step.observation[1] ELSE << >>)
      \o << NL, NL, ContinueLbl >>

---------------------------------------------------------------------------
(* Reasoning steps and the answer synthesized from them, lines 242-258. *)

\* the dict of lines 78-84
Step(it, thought, action, action_input, observation) ==
    [ kind |-> "step", iteration |-> it, thought |-> thought, action |-> action,
      action_input |-> action_input, observation |-> observation,
      error |-> << >> ]

\* the dict of lines 235-238: 'iteration' and 'error' only
ErrorStep(it, message) ==
    [ kind |-> "error", iteration |-> it, thought |-> << >>, action |-> None,
      action_input |-> None, observation |-> None, error |-> message ]

\* step.get('observation', ''), as a truth value and as a text
HasObservation(step) == step.kind = "step" /\ Truthy(step.observation)

\* a choice of observation that takes the last one recorded
BestObservationLast(steps) ==
    LET any == { i \in DOMAIN steps : HasObservation(steps[i]) }
    IN  IF any = {} THEN None
        ELSE steps[CHOOSE i \in any : \A j \in any : j <= i].observation

\* a choice of observation that does not look for the marker
BestObservationFirst(steps) ==
    LET any == { i \in DOMAIN steps : HasObservation(steps[i]) }
    IN  IF any = {} THEN None ELSE steps[Min(any)].observation

\* lines 245-252: the first observation with the marker, else the first one
BestObservation(steps) ==
    LET marked == { i \in DOMAIN steps :
                      HasObservation(steps[i])
                      /\ MostRelevant \in Range(steps[i].observation[1]) }
        any    == { i \in DOMAIN steps : HasObservation(steps[i]) }
    IN  IF marked # {} THEN steps[Min(marked)].observation
        ELSE IF any # {} THEN steps[Min(any)].observation
        ELSE None

\* reasoning_steps[-1].get('thought', 'Unable to generate response')
LastThought(steps) ==
    IF steps[Len(steps)].kind = "step"
    THEN steps[Len(steps)].thought
    ELSE << UnableToGenerate >>

\* a synthesis that does not ask whether the loop left a final answer
SynthesizedAlways(fa, steps) ==
    IF steps # << >>
    THEN IF Truthy(BestObservation(steps))
         THEN Some(_format_observation_as_answer(BestObservation(steps)[1]))
         ELSE Some(LastThought(steps))
    ELSE fa

\* lines 243-258: final_answer after the loop
SynthesizedAnswer(fa, steps) ==
    IF ~Truthy(fa) /\ steps # << >>
    THEN IF Truthy(BestObservation(steps))
         THEN Some(_format_observation_as_answer(BestObservation(steps)[1]))
         ELSE Some(LastThought(steps))
    ELSE fa


---------------------------------------------------------------------------
(* The collaborators of one run: what the model and the tools may do. *)

\* run(query, context): the calls explored
RunInputs ==
    { [ query |-> << "what", "is", "CMPE", "prerequisites" >>, context |-> None ],
      [ query |-> << "where", "is", "parking?" >>, context |-> Some(<< "campus" >>) ] }

\* llm_client.generate: a text (a final answer, an empty final answer, a
\* tool action, an action input without an action, text without structure,
\* no text) or an exception
LLMTexts ==
    { << LblFinal, "answer" >>,
      << LblFinal, NL >>,
      << LblAction, "web_search", NL, LblInput, "CMPE" >>,
      << LblAction, "database_query", NL, LblInput, "parking" >>,
      << LblInput, "CMPE" >>,
      << "hmm" >>,
      << >> }
\* the provider call inside generate of a shipped client: a text, or an
\* exception with its message
ProviderOutcomes ==
    { [ failed |-> FALSE, text |-> t ] : t \in LLMTexts }
      \cup { [ failed |-> TRUE, text |-> << "LLM Error" >> ] }
\* generate of GroqLlamaClient, MistralClient and OllamaClient: the text of
\* the provider, or, the exception caught, its message returned as the text
ClientGenerate(p) ==
    [ raised |-> FALSE, failed |-> p.failed,
      text |-> IF p.failed THEN << ErrorGenerating >> \o p.text ELSE p.text ]
\* what llm_client.generate does: a shipped client, or a client that raises
\* (the mock of the tests)
LLMOutcomes ==
    { ClientGenerate(p) : p \in ProviderOutcomes }
      \cup { [ raised |-> TRUE, failed |-> FALSE, text |-> << "LLM Error" >> ] }

\* tools['database_query'].execute and tools['web_search'].execute: an
\* observation or an exception
DbTexts  == { << MostRelevant, "CMPE" >>, << NoInfoFound >>, << "parking" >> }
WebTexts == { << SummaryLbl, "CMPE" >>, << >> }
ToolOutcomes(texts) ==
    { [ raised |-> FALSE, text |-> t ] : t \in texts }
      \cup { [ raised |-> TRUE, text |-> << "tool failed" >> ] }

ErrorExecuting == "Error executing"
ModelName == "test-model"
tools == { "web_search", "database_query" }

\* one entry of the log of tool calls
ToolCall(it, tool, input, outcome) ==
    [ iteration |-> it, tool |-> tool, input |-> input,
      raised |-> outcome.raised, output |-> outcome.text ]

---------------------------------------------------------------------------
(* AgentOrchestrator.run *)

\* lines 52-59: the locals of a new run
StartRun ==
    /\ pc \in { "idle", "returned" }
    /\ runs < MaxRuns
    /\ (runs + 1) * max_iterations <= MaxCalls
    /\ \E in \in RunInputs :
         /\ query' = in.query
         /\ context' = in.context
         /\ user_prompt' = _build_user_prompt(in.query, in.context, conversation_history)
    /\ reasoning_steps' = << >>
    /\ iteration' = 0
    /\ final_answer' = None
    /\ loop_exit' = "running"
    /\ result' = None
    /\ llm_calls' = << >>
    /\ tool_calls' = << >>
    /\ runs' = runs + 1
    /\ pc' = "loop"
    /\ UNCHANGED << max_iterations, conversation_history, response_text, parsed,
                    snapshots, db_observation, fallback, runs_since_reset, session_state >>

\* a loop that an exception or an accepted answer does not leave (no break)
LoopConditionNoBreak ==
    /\ iteration < max_iterations
    /\ ~Truthy(final_answer)

\* a loop that runs one iteration too many
LoopConditionOffByOne ==
    /\ loop_exit = "running"
    /\ iteration <= max_iterations
    /\ ~Truthy(final_answer)

\* line 61: while iteration < self.max_iterations and not final_answer
LoopCondition ==
    /\ loop_exit = "running"
    /\ iteration < max_iterations
    /\ ~Truthy(final_answer)

\* lines 90-97: the action and input of the step once the first-iteration
\* override has been applied to the parsed tuple p
\* a guard put on the second iteration instead of the first
OverrideAppliesLate(p, it) == p[1] = Some(FinalAnswerAction) /\ it = 2
OverrideApplies(p, it) == p[1] = Some(FinalAnswerAction) /\ it = 1
\* an override that never applies
NoOverrideAction(p, it) == p[1]
ActionAfterOverride(p, it) ==
    IF OverrideApplies(p, it) THEN Some("database_query") ELSE p[1]
\* an override that keeps the parsed input
InputNotQuery(p, it, q) == p[2]
InputAfterOverride(p, it, q) ==
    IF OverrideApplies(p, it) THEN Some(q) ELSE p[2]

\* line 100: a final answer is accepted after the first iteration only
AcceptsFinal(action, it) == action = Some(FinalAnswerAction) /\ it > 1

\* a handler that leaves no trace of the exception in the observation
ToolErrorEmpty(action, message) == << >>
\* lines 225-227: the observation of a tool call that raised
ToolErrorText(action, message) == << ErrorExecuting, action, ":" >> \o message

\* an iteration that appends its step a second time once it is complete
RecordTwice(step, calls) ==
    /\ reasoning_steps' = reasoning_steps \o << step, step >>
    /\ user_prompt' = _update_prompt(user_prompt, step)
    /\ tool_calls' = tool_calls \o calls
    /\ final_answer' = final_answer
    /\ loop_exit' = loop_exit

\* the effects shared by every way an iteration ends without leaving the loop
Record(step, calls) ==
    /\ reasoning_steps' = Append(reasoning_steps, step)
    /\ user_prompt' = _update_prompt(user_prompt, step)
    /\ tool_calls' = tool_calls \o calls
    /\ final_answer' = final_answer
    /\ loop_exit' = loop_exit

\* a dispatch whose exception reaches the handler of the iteration: an
\* error step, and the loop is left
DispatchWebFatal(it, thought, input) ==
    \E w \in ToolOutcomes(WebTexts) :
        IF w.raised
        THEN /\ reasoning_steps' = Append(reasoning_steps, ErrorStep(it, w.text))
             /\ tool_calls' = Append(tool_calls, ToolCall(it, "web_search", input, w))
             /\ loop_exit' = "error"
             /\ UNCHANGED << user_prompt, final_answer >>
        ELSE Record(Step(it, thought, Some("web_search"), input, Some(w.text)),
                    << ToolCall(it, "web_search", input, w) >>)

\* a dispatch that puts the relevance check after a web search as well
DispatchWebChecked(it, thought, input) ==
    \E w \in ToolOutcomes(WebTexts) :
        LET call == ToolCall(it, "web_search", input, w)
            obs  == IF w.raised THEN ToolErrorText("web_search", w.text) ELSE w.text
        IN  IF ~w.raised /\ should_fallback(query, w.text, conversation_history)
            THEN \E v \in ToolOutcomes(WebTexts) :
                    LET wq == web_search_query(query, conversation_history)
                    IN  Record(Step(it, thought, Some("web_search"), Some(wq),
                                    Some(v.text)),
                               << call, ToolCall(it, "web_search", Some(wq), v) >>)
            ELSE Record(Step(it, thought, Some("web_search"), input, Some(obs)),
                        << call >>)

\* lines 106-228, action = 'web_search': one call, its result or its error
DispatchWeb(it, thought, input) ==
    \E w \in ToolOutcomes(WebTexts) :
        LET obs == IF w.raised THEN ToolErrorText("web_search", w.text) ELSE w.text
        IN  Record(Step(it, thought, Some("web_search"), input, Some(obs)),
                   << ToolCall(it, "web_search", input, w) >>)

\* a fallback that leaves the database observation on the step
DispatchDbStale(it, thought, input) ==
    \E d \in ToolOutcomes(DbTexts) :
        LET dcall == ToolCall(it, "database_query", input, d)
        IN  \/ /\ d.raised
               /\ Record(Step(it, thought, Some("database_query"), input,
                              Some(ToolErrorText("database_query", d.text))),
                         << dcall >>)
            \/ /\ ~d.raised
               /\ ~should_fallback(query, d.text, conversation_history)
               /\ Record(Step(it, thought, Some("database_query"), input,
                              Some(d.text)),
                         << dcall >>)
            \/ /\ ~d.raised
               /\ should_fallback(query, d.text, conversation_history)
               /\ \E w \in ToolOutcomes(WebTexts) :
                    LET wq    == web_search_query(query, conversation_history)
                        wcall == ToolCall(it, "web_search", Some(wq), w)
                    IN  IF w.raised
                        THEN Record(Step(it, thought, Some("database_query"),
                                         input, Some(<< CouldNotFind >>)),
                                    << dcall, wcall >>)
                        ELSE Record(Step(it, thought, Some("web_search"),
                                         Some(wq), Some(d.text)),
                                    << dcall, wcall >>)

\* a fallback whose failing web search reaches the handler of the
\* iteration: an error step, and the loop is left
DispatchDbFatal(it, thought, input) ==
    \E d \in ToolOutcomes(DbTexts) :
        LET dcall == ToolCall(it, "database_query", input, d)
        IN  \/ /\ d.raised
               /\ Record(Step(it, thought, Some("database_query"), input,
                              Some(ToolErrorText("database_query", d.text))),
                         << dcall >>)
            \/ /\ ~d.raised
               /\ ~should_fallback(query, d.text, conversation_history)
               /\ Record(Step(it, thought, Some("database_query"), input,
                              Some(d.text)),
                         << dcall >>)
            \/ /\ ~d.raised
               /\ should_fallback(query, d.text, conversation_history)
               /\ \E w \in ToolOutcomes(WebTexts) :
                    LET wq    == web_search_query(query, conversation_history)
                        wcall == ToolCall(it, "web_search", Some(wq), w)
                    IN  IF w.raised
                        THEN /\ reasoning_steps' =
                                  Append(reasoning_steps, ErrorStep(it, w.text))
                             /\ tool_calls' = tool_calls \o << dcall, wcall >>
                             /\ loop_exit' = "error"
                             /\ UNCHANGED << user_prompt, final_answer >>
                        ELSE Record(Step(it, thought, Some("web_search"),
                                         Some(wq), Some(w.text)),
                                    << dcall, wcall >>)

\* lines 106-228, action = 'database_query': the call, the relevance check
\* and, when the result is judged irrelevant, the web search in its place
DispatchDb(it, thought, input) ==
    \E d \in ToolOutcomes(DbTexts) :
        LET dcall == ToolCall(it, "database_query", input, d)
        IN  \/ /\ d.raised
               /\ Record(Step(it, thought, Some("database_query"), input,
                              Some(ToolErrorText("database_query", d.text))),
                         << dcall >>)
            \/ /\ ~d.raised
               /\ ~should_fallback(query, d.text, conversation_history)
               /\ Record(Step(it, thought, Some("database_query"), input,
                              Some(d.text)),
                         << dcall >>)
            \/ /\ ~d.raised
               /\ should_fallback(query, d.text, conversation_history)
               /\ \E w \in ToolOutcomes(WebTexts) :
                    LET wq    == web_search_query(query, conversation_history)
                        wcall == ToolCall(it, "web_search", Some(wq), w)
                    IN  IF w.raised
                        THEN Record(Step(it, thought, Some("database_query"),
                                         input, Some(<< CouldNotFind >>)),
                                    << dcall, wcall >>)
                        ELSE Record(Step(it, thought, Some("web_search"),
                                         Some(wq), Some(w.text)),
                                    << dcall, wcall >>)

\* a loop that records the turn of the model in the history as it goes
LoopHistoryGrows ==
    conversation_history' =
        Append(conversation_history,
               [ role |-> "assistant", content |-> << "thinking" >> ])
\* lines 61-240 hold no assignment to self.conversation_history and no call
\* that changes the list: generate receives it and copies its entries
LoopHistory == conversation_history' = conversation_history

\* lines 61-240: one iteration of the loop
Iterate ==
    /\ pc = "loop"
    /\ LoopCondition
    /\ LoopHistory
    /\ iteration' = iteration + 1
    /\ \E llm \in LLMOutcomes :
        LET it     == iteration + 1
            p      == ParseResponse(llm.text)
            action == ActionAfterOverride(p, it)
            input  == InputAfterOverride(p, it, query)
        IN  /\ llm_calls' = Append(llm_calls,
                   [ iteration |-> it, system_prompt |-> _build_system_prompt,
                     user_prompt |-> user_prompt,
                     provider_failed |-> llm.failed,
                     response |-> llm.text,
                     raised |-> llm.raised,
                     parsed |-> IF llm.raised THEN None ELSE Some(p),
                     conversation_history |-> conversation_history ])
            /\ \/ \* lines 233-240: generate raised
                  /\ llm.raised
                  /\ reasoning_steps' = Append(reasoning_steps, ErrorStep(it, llm.text))
                  /\ loop_exit' = "error"
                  /\ UNCHANGED << final_answer, user_prompt, tool_calls >>
               \/ \* lines 100-103: the final answer, accepted
                  /\ ~llm.raised
                  /\ AcceptsFinal(action, it)
                  /\ reasoning_steps' =
                       Append(reasoning_steps, Step(it, llm.text, p[1], p[2], p[3]))
                  /\ final_answer' = p[3]
                  /\ loop_exit' = "final"
                  /\ UNCHANGED << user_prompt, tool_calls >>
               \/ \* line 106: no tool of that name
                  /\ ~llm.raised
                  /\ ~AcceptsFinal(action, it)
                  /\ \A t \in tools : action # Some(t)
                  /\ Record(Step(it, llm.text, p[1], p[2], p[3]), << >>)
               \/ /\ ~llm.raised
                  /\ action = Some("web_search")
                  /\ DispatchWeb(it, llm.text, input)
               \/ /\ ~llm.raised
                  /\ action = Some("database_query")
                  /\ DispatchDb(it, llm.text, input)
    /\ UNCHANGED << max_iterations, pc, query, context,
                    result, runs, response_text, parsed, snapshots,
                    db_observation, fallback, runs_since_reset, session_state >>

\* a response without the apology in place of an empty answer
ResponseNoDefault(fa) == IF fa = None THEN << >> ELSE fa[1]
\* line 263: 'response'
ResponseOf(fa) == OrElse(fa, << Apology >>)

\* line 269: 'completed'
CompletedOf(fa) == fa # None

\* a run that records the question only
UserTurnOnly(q, fa) == << [ role |-> "user", content |-> q ] >>
\* lines 273-281: the two turns a run appends to the history
NewTurns(q, fa) ==
    << [ role |-> "user", content |-> q ],
       [ role |-> "assistant", content |-> OrElse(fa, << UnableToRespond >>) ] >>

\* lines 242-283: the answer synthesized, the result and the two turns
Finish ==
    /\ pc = "loop"
    /\ ~LoopCondition
    /\ LET fa == SynthesizedAnswer(final_answer, reasoning_steps)
       IN  /\ final_answer' = fa
           /\ result' = Some([ query |-> query,
                               response |-> ResponseOf(fa),
                               reasoning_steps |-> reasoning_steps,
                               iterations |-> iteration,
                               metadata |-> [ model |-> ModelName,
                                              max_iterations |-> max_iterations,
                                              completed |-> CompletedOf(fa) ] ])
           /\ conversation_history' = conversation_history \o NewTurns(query, fa)
    /\ pc' = "returned"
    /\ runs_since_reset' = runs_since_reset + 1
    /\ UNCHANGED << max_iterations, query, context, reasoning_steps, iteration,
                    user_prompt, loop_exit, llm_calls, tool_calls, runs,
                    response_text, parsed, snapshots, db_observation, fallback,
                    session_state >>

\* reset_conversation, called between two runs: explored where the bounds
\* of StartRun let a run follow
ResetConversation ==
    /\ pc \in { "idle", "returned" }
    /\ runs < MaxRuns
    /\ (runs + 1) * max_iterations <= MaxCalls
    /\ conversation_history' = << >>
    /\ runs_since_reset' = 0
    /\ UNCHANGED << max_iterations, pc, query, context, reasoning_steps,
                    iteration, final_answer, user_prompt, loop_exit, result,
                    llm_calls, tool_calls, runs, response_text, parsed,
                    snapshots, db_observation, fallback, session_state >>

\* __init__: an orchestrator with some max_iterations and no history
Init ==
    /\ max_iterations \in 0..MaxIterations
    /\ conversation_history = << >>
    /\ pc = "idle"
    /\ query = << >>
    /\ context = None
    /\ reasoning_steps = << >>
    /\ iteration = 0
    /\ final_answer = None
    /\ user_prompt = << >>
    /\ loop_exit = "running"
    /\ result = None
    /\ llm_calls = << >>
    /\ tool_calls = << >>
    /\ runs = 0
    /\ response_text = << >>
    /\ parsed = None
    /\ snapshots = << >>
    /\ db_observation = << >>
    /\ fallback = None
    /\ runs_since_reset = 0
    /\ session_state = NewSession

Next == StartRun \/ Iterate \/ Finish \/ ResetConversation

Spec == Init /\ [][Next]_vars


---------------------------------------------------------------------------
(* _parse_response on its own: every text of a bounded set is parsed. *)

ParseAlphabet ==
    { LblAction, LblInput, LblFinal, LblObs, LblThought, NL, Quote,
      "web_search", "CMPE" }

\* the lines a model writes: an action, an action input, a final answer, an
\* observation, a label with nothing after it, plain text
ParseLines ==
    { << LblAction, "web_search" >>, << LblInput, "CMPE" >>,
      << LblFinal, "answer" >>, << LblObs, "found" >>,
      << LblAction >>, << LblInput >>, << LblFinal >>, << "hmm" >> }

\* "\n".join(lines)
RECURSIVE JoinLines(_)
JoinLines(lines) ==
    IF Len(lines) = 1 THEN lines[1]
    ELSE lines[1] \o << NL >> \o JoinLines(Tail(lines))

\* the texts parsed: every text of at most MaxLen tokens, and every text of
\* at most MaxLines whole lines
IsParseInput(text) ==
    \/ \E n \in 0..MaxLen : text \in [ 1..n -> ParseAlphabet ]
    \/ \E n \in 1..MaxLines : \E lines \in [ 1..n -> ParseLines ] :
          text = JoinLines(lines)

ParseInit ==
    /\ max_iterations = 0
    /\ conversation_history = << >>
    /\ pc = "parser"
    /\ query = << >>
    /\ context = None
    /\ reasoning_steps = << >>
    /\ iteration = 0
    /\ final_answer = None
    /\ user_prompt = << >>
    /\ loop_exit = "running"
    /\ result = None
    /\ llm_calls = << >>
    /\ tool_calls = << >>
    /\ runs = 0
    /\ IsParseInput(response_text)
    /\ parsed = None
    /\ snapshots = << >>
    /\ db_observation = << >>
    /\ fallback = None
    /\ runs_since_reset = 0
    /\ session_state = NewSession

\* action, action_input, observation = self._parse_response(response)
ParseCall ==
    /\ pc = "parser"
    /\ parsed' = Some(ParseResponse(response_text))
    /\ pc' = "parsed"
    /\ UNCHANGED << max_iterations, conversation_history, query, context,
                    reasoning_steps, iteration, final_answer, user_prompt,
                    loop_exit, result, llm_calls, tool_calls, runs,
                    response_text,
                    snapshots, db_observation, fallback, runs_since_reset, session_state >>

ParseNext == ParseCall

ParseSpec == ParseInit /\ [][ParseNext]_vars


---------------------------------------------------------------------------
(* The chat flow of ui/streamlit_app.py: main() handles one submitted      *)
(* prompt per script run, and the sidebar clears the conversation.         *)
(* Line 227 assigns the list of the session to the agent, so that          *)
(* agent.conversation_history and st.session_state.conversation_history    *)
(* are one list object while the prompt is handled.                        *)

\* prompts handled between two clearings
MaxPrompts == 3

\* st.chat_input: the prompts submitted
ChatPrompts ==
    { << "where", "is", "parking?" >>, << "what", "is", "CMPE", "prerequisites" >> }

\* final_answer at line 261 of a run of the agent the app builds (default
\* max_iterations, so one step at least): a text, possibly empty
RunAnswers ==
    { Some(<< "answer" >>), Some(<< >>), Some(<< UnableToGenerate >>) }

ChatInit ==
    /\ max_iterations = 0
    /\ conversation_history = << >>
    /\ pc = "chat"
    /\ query = << >>
    /\ context = None
    /\ reasoning_steps = << >>
    /\ iteration = 0
    /\ final_answer = None
    /\ user_prompt = << >>
    /\ loop_exit = "running"
    /\ result = None
    /\ llm_calls = << >>
    /\ tool_calls = << >>
    /\ runs = 0
    /\ response_text = << >>
    /\ parsed = None
    /\ snapshots = << >>
    /\ db_observation = << >>
    /\ fallback = None
    /\ runs_since_reset = 0
    /\ session_state = NewSession

\* every variable but the two histories
chat_rest ==
    << max_iterations, pc, context, reasoning_steps, iteration, user_prompt,
       loop_exit, llm_calls, tool_calls, runs, response_text, parsed, snapshots,
       db_observation, fallback, runs_since_reset >>

\* main(), lines 217-263, for one prompt: the user message, the list of the
\* session handed to the agent (line 227), run() (which appends its two
\* turns to that list, lines 273-281 of the orchestrator), the two turns
\* the app appends to the same list (lines 238-245), the assistant message
HandlePrompt ==
    /\ pc = "chat"
    /\ Len(session_state.messages) < 2 * MaxPrompts
    /\ \E prompt \in ChatPrompts, fa \in RunAnswers :
         LET shared    == session_state.conversation_history
             after_run == shared \o NewTurns(prompt, fa)
             response  == ResponseOf(fa)
             user      == [ role |-> "user", content |-> prompt ]
             assistant == [ role |-> "assistant", content |-> response ]
             after_app == after_run \o << user, assistant >>
         IN  /\ query' = prompt
             /\ final_answer' = fa
             /\ result' = Some([ query |-> prompt, response |-> response ])
             /\ conversation_history' = after_app
             /\ session_state' =
                  [ messages |-> session_state.messages \o << user, assistant >>,
                    conversation_history |-> after_app ]
    /\ UNCHANGED chat_rest

\* sidebar(), lines 152-155: new lists in the session; the agent keeps the
\* list it was handed until the next prompt
ClearConversation ==
    /\ pc = "chat"
    /\ session_state' = NewSession
    /\ UNCHANGED << conversation_history, query, final_answer, result >>
    /\ UNCHANGED chat_rest

ChatNext == HandlePrompt \/ ClearConversation

ChatSpec == ChatInit /\ [][ChatNext]_vars


---------------------------------------------------------------------------
(* get_conversation_history, and what a caller does with the list it       *)
(* returns.  list.copy() is shallow: the list returned is a new list, its  *)
(* entries are the dicts of self.conversation_history.  An entry of a      *)
(* returned list is [ref |-> k, turn |-> t]: with k > 0 it is the dict at  *)
(* position k of self.conversation_history, with k = 0 it is a dict of the *)
(* caller's own, of value t.                                               *)

\* lists requested from one orchestrator
MaxSnapshots == 2
\* (user, assistant) pairs held when the lists are requested
MaxPairs == 1
\* changes a caller makes to the lists returned
MaxMutations == 3

NoTurn == [ role |-> "", content |-> << >> ]
SharedEntry(k) == [ ref |-> k, turn |-> NoTurn ]
OwnEntry(t) == [ ref |-> 0, turn |-> t ]

\* what a caller writes: a turn of its own, another role, another content
CallerTurn == [ role |-> "user", content |-> << "added" >> ]
ChangedRole == "system"
ChangedContent == << "changed" >>

\* the history after n runs, as the tests set it up
HistoryOf(n) ==
    [ k \in 1..(2 * n) |->
        IF k % 2 = 1 THEN [ role |-> "user", content |-> << "test" >> ]
        ELSE [ role |-> "assistant", content |-> << "answer" >> ] ]

\* what a list reads as: the values of its dicts
View(snapshot, history) ==
    [ i \in DOMAIN snapshot |->
        IF snapshot[i].ref > 0 THEN history[snapshot[i].ref] ELSE snapshot[i].turn ]

\* line 423: self.conversation_history.copy()
ShallowCopy(history) == [ k \in DOMAIN history |-> SharedEntry(k) ]

\* the changes made so far, read off the state: fields changed, turns added
\* to a list, turns of the history removed from a list
ChangedFields(t) ==
    (IF t.role = ChangedRole THEN 1 ELSE 0)
      + (IF t.content = ChangedContent THEN 1 ELSE 0)
RECURSIVE TurnChanges(_)
TurnChanges(turns) ==
    IF turns = << >> THEN 0
    ELSE ChangedFields(Head(turns)) + TurnChanges(Tail(turns))
EntryChanges(e) == IF e.ref > 0 THEN 0 ELSE 1 + ChangedFields(e.turn)
RECURSIVE EntriesChanges(_)
EntriesChanges(snapshot) ==
    IF snapshot = << >> THEN 0
    ELSE EntryChanges(Head(snapshot)) + EntriesChanges(Tail(snapshot))
SnapshotChanges(snapshot) ==
    EntriesChanges(snapshot)
      + Cardinality({ k \in DOMAIN conversation_history :
                        \A i \in DOMAIN snapshot : snapshot[i].ref # k })
RECURSIVE SnapshotsChanges(_)
SnapshotsChanges(lists) ==
    IF lists = << >> THEN 0
    ELSE SnapshotChanges(Head(lists)) + SnapshotsChanges(Tail(lists))
MutationsMade == TurnChanges(conversation_history) + SnapshotsChanges(snapshots)

HistoryInit ==
    /\ max_iterations = 0
    /\ \E n \in 0..MaxPairs :
         /\ conversation_history = HistoryOf(n)
         /\ runs = n
         /\ runs_since_reset = n
         /\ session_state = NewSession
    /\ pc = "history"
    /\ query = << >>
    /\ context = None
    /\ reasoning_steps = << >>
    /\ iteration = 0
    /\ final_answer = None
    /\ user_prompt = << >>
    /\ loop_exit = "running"
    /\ result = None
    /\ llm_calls = << >>
    /\ tool_calls = << >>
    /\ response_text = << >>
    /\ parsed = None
    /\ snapshots = << >>
    /\ db_observation = << >>
    /\ fallback = None

\* every variable but the history and the lists returned
history_rest ==
    << max_iterations, pc, query, context, reasoning_steps, iteration,
       final_answer, user_prompt, loop_exit, result, llm_calls, tool_calls,
       runs, response_text, parsed, db_observation, fallback, runs_since_reset,
       session_state >>

\* lines 421-423: get_conversation_history
GetConversationHistory ==
    /\ pc = "history"
    /\ Len(snapshots) < MaxSnapshots
    /\ snapshots' = Append(snapshots, ShallowCopy(conversation_history))
    /\ UNCHANGED << conversation_history, history_rest >>

\* the caller: returned.append(turn)
SnapshotAppend ==
    /\ pc = "history"
    /\ MutationsMade < MaxMutations
    /\ \E s \in DOMAIN snapshots :
         snapshots' = [ snapshots EXCEPT ![s] = Append(@, OwnEntry(CallerTurn)) ]
    /\ UNCHANGED << conversation_history, history_rest >>

\* the caller: returned.pop()
SnapshotRemove ==
    /\ pc = "history"
    /\ MutationsMade < MaxMutations
    /\ \E s \in DOMAIN snapshots :
         /\ snapshots[s] # << >>
         /\ snapshots' = [ snapshots EXCEPT ![s] = SubSeq(@, 1, Len(@) - 1) ]
    /\ UNCHANGED << conversation_history, history_rest >>

\* the caller: returned[i]['content'] = ...
SnapshotSetContent ==
    /\ pc = "history"
    /\ MutationsMade < MaxMutations
    /\ \E s \in DOMAIN snapshots : \E i \in DOMAIN snapshots[s] :
         LET e == snapshots[s][i]
         IN  /\ View(snapshots[s], conversation_history)[i].content # ChangedContent
             /\ IF e.ref > 0
                THEN /\ conversation_history' =
                          [ conversation_history EXCEPT ![e.ref].content = ChangedContent ]
                     /\ UNCHANGED snapshots
                ELSE /\ snapshots' =
                          [ snapshots EXCEPT ![s][i].turn.content = ChangedContent ]
                     /\ UNCHANGED conversation_history
    /\ UNCHANGED history_rest

\* the caller: returned[i]['role'] = ...
SnapshotSetRole ==
    /\ pc = "history"
    /\ MutationsMade < MaxMutations
    /\ \E s \in DOMAIN snapshots : \E i \in DOMAIN snapshots[s] :
         LET e == snapshots[s][i]
         IN  /\ View(snapshots[s], conversation_history)[i].role # ChangedRole
             /\ IF e.ref > 0
                THEN /\ conversation_history' =
                          [ conversation_history EXCEPT ![e.ref].role = ChangedRole ]
                     /\ UNCHANGED snapshots
                ELSE /\ snapshots' =
                          [ snapshots EXCEPT ![s][i].turn.role = ChangedRole ]
                     /\ UNCHANGED conversation_history
    /\ UNCHANGED history_rest

HistoryNext ==
    \/ GetConversationHistory
    \/ SnapshotAppend
    \/ SnapshotRemove
    \/ SnapshotSetContent
    \/ SnapshotSetRole

HistorySpec == HistoryInit /\ [][HistoryNext]_vars


---------------------------------------------------------------------------
(* The relevance check of run() on its own (lines 119-212): a query, a     *)
(* history and a database observation of a bounded set are judged.         *)

\* longest query (in words) handed to the relevance check on its own
MaxQueryWords == 3

RelevanceVocabulary ==
    { "what", "where", "CMPE", "prerequisites", "parking?", "database", "records" }
\* what DatabaseTool.execute returns: its two "nothing found" messages and
\* results
RelevanceObservations ==
    { << NoInfoFound >>, << NoRelevantInfo >>, << MostRelevant, "CMPE" >>,
      << "parking" >>, << "CMPE", "prerequisites" >>,
      << MostRelevant, "CMPE", "prerequisites", NL, "parking", "records" >> }
\* no turn yet, the pair of the tests, a pair about parking
RelevanceHistories ==
    { << >>, HistoryOf(1),
      << [ role |-> "user", content |-> << "where", "is", "parking?" >> ],
         [ role |-> "assistant", content |-> << "parking" >> ] >> }

RelevanceInit ==
    /\ max_iterations = 0
    /\ conversation_history \in RelevanceHistories
    /\ runs = Len(conversation_history) \div 2
    /\ runs_since_reset = Len(conversation_history) \div 2
    /\ session_state = NewSession
    /\ pc = "relevance"
    /\ \E n \in 0..MaxQueryWords : query \in [ 1..n -> RelevanceVocabulary ]
    /\ db_observation \in RelevanceObservations
    /\ fallback = None
    /\ context = None
    /\ reasoning_steps = << >>
    /\ iteration = 0
    /\ final_answer = None
    /\ user_prompt = << >>
    /\ loop_exit = "running"
    /\ result = None
    /\ llm_calls = << >>
    /\ tool_calls = << >>
    /\ response_text = << >>
    /\ parsed = None
    /\ snapshots = << >>

\* lines 119-212: should_fallback, fallback_reason and web_search_query
CheckRelevance ==
    /\ pc = "relevance"
    /\ fallback' =
         Some([ should_fallback |->
                  should_fallback(query, db_observation, conversation_history),
                fallback_reason |->
                  fallback_reason(query, db_observation, conversation_history),
                web_search_query |->
                  web_search_query(query, conversation_history) ])
    /\ pc' = "judged"
    /\ UNCHANGED << max_iterations, conversation_history, query, context,
                    reasoning_steps, iteration, final_answer, user_prompt,
                    loop_exit, result, llm_calls, tool_calls, runs,
                    response_text, parsed, snapshots, db_observation,
                    runs_since_reset, session_state >>

RelevanceNext == CheckRelevance

RelevanceSpec == RelevanceInit /\ [][RelevanceNext]_vars


---------------------------------------------------------------------------
(* The result of a run, as the claims read it. *)

Returned == pc = "returned" /\ result # None
Res == result[1]
IsFinalStep(step) == step.kind = "step" /\ step.action = Some(FinalAnswerAction)
NonErrorSteps(steps) == { i \in DOMAIN steps : steps[i].kind = "step" }
ErrorSteps(steps) == { i \in DOMAIN steps : steps[i].kind = "error" }
\* the model's output at a step was a final answer
EmittedFinal(step) ==
    /\ step.kind = "step"
    /\ llm_calls[step.iteration].parsed[1][1] = Some(FinalAnswerAction)

---------------------------------------------------------------------------
(* C1: whatever the query, max_iterations, the model and the tools do,     *)
(* run() returns a result whose 'response' is a non-empty text.            *)
C1_ResponseNonEmpty ==
    pc = "returned" => result # None /\ Res.response # << >>

\* a run whose synthesized answer is the empty text: the response is the apology
C1_Witness ==
    /\ Returned
    /\ reasoning_steps # << >>
    /\ final_answer = Some(<< >>)
    /\ Res.response = << Apology >>

(* C2: a final answer is never accepted on iteration 1.  When the model's  *)
(* first output parses as a final answer, step 1 becomes a database_query  *)
(* on the raw query and that lookup is the first tool call; an answer is   *)
(* accepted only from iteration 2 on, and with max_iterations >= 2 the     *)
(* run returns iterations >= 2.                                            *)
C2_FirstIterationGuard ==
    /\ loop_exit = "final" => iteration >= 2
    /\ (reasoning_steps # << >> /\ EmittedFinal(reasoning_steps[1])) =>
         /\ reasoning_steps[1].action \in { Some("database_query"), Some("web_search") }
         /\ reasoning_steps[1].action = Some("database_query")
              => reasoning_steps[1].action_input = Some(query)
         /\ tool_calls # << >>
         /\ tool_calls[1].iteration = 1
         /\ tool_calls[1].tool = "database_query"
         /\ tool_calls[1].input = Some(query)
         /\ (Returned /\ max_iterations >= 2) => Res.iterations >= 2

\* the model answers at once, is overridden, and answers again at iteration 2
C2_Witness ==
    /\ Returned
    /\ Len(reasoning_steps) = 2
    /\ EmittedFinal(reasoning_steps[1])
    /\ reasoning_steps[1].action = Some("database_query")
    /\ IsFinalStep(reasoning_steps[2])
    /\ Res.iterations = 2
    /\ Res.response = << "answer" >>

(* C3: when the loop reaches max_iterations with a model that always       *)
(* emits non-final tool actions, run() returns 'completed' = false,        *)
(* 'iterations' = max_iterations and a non-empty response.                 *)
C3_Exhaustion ==
    ( /\ Returned
      /\ max_iterations >= 1
      /\ \A i \in DOMAIN reasoning_steps :
            /\ reasoning_steps[i].kind = "step"
            /\ ~EmittedFinal(reasoning_steps[i])
            /\ \E t \in tools : reasoning_steps[i].action = Some(t) )
    => /\ Res.metadata.completed = FALSE
       /\ Res.iterations = max_iterations
       /\ Res.response # << >>

(* C4, as stated: 'iterations' equals the number of entries of             *)
(* reasoning_steps that are not error steps, also when a model call raised *)
C4_Original ==
    Returned => Res.iterations = Cardinality(NonErrorSteps(Res.reasoning_steps))

(* C4, amended: 'iterations' equals the number of non-error entries plus   *)
(* the number of error entries, of which there is at most one, and exactly *)
(* one when a model call raised.                                           *)
C4_IterationsCountSteps ==
    Returned =>
      LET n == Cardinality(NonErrorSteps(Res.reasoning_steps))
          e == Cardinality(ErrorSteps(Res.reasoning_steps))
      IN  /\ e <= 1
          /\ e = 1 <=> loop_exit = "error"
          /\ Res.iterations = n + e

\* a run whose third model call raised: two steps, one error step, iterations 3
C4_Witness ==
    /\ Returned
    /\ loop_exit = "error"
    /\ Cardinality(NonErrorSteps(Res.reasoning_steps)) = 2
    /\ Res.iterations = 3

(* C5: 'iterations' never exceeds max_iterations, the model is called at   *)
(* most max_iterations times per run, and 'iterations' equals              *)
(* max_iterations when the model never emits a final answer and no model   *)
(* call raises.                                                            *)
C5_IterationsBounded ==
    /\ iteration <= max_iterations
    /\ Len(llm_calls) <= max_iterations
    /\ Returned =>
         /\ Res.iterations <= max_iterations
         /\ (\A i \in DOMAIN reasoning_steps :
                reasoning_steps[i].kind = "step" /\ ~EmittedFinal(reasoning_steps[i]))
              => Res.iterations = max_iterations

\* a run of three iterations without a final answer or an error
C5_Witness ==
    /\ Returned
    /\ max_iterations = 3
    /\ Res.iterations = 3
    /\ Len(llm_calls) = 3
    /\ \A i \in DOMAIN reasoning_steps :
          reasoning_steps[i].kind = "step" /\ ~EmittedFinal(reasoning_steps[i])

(* C6: at most one step of a run has action 'Final Answer', and such a     *)
(* step is the last of the sequence.                                       *)
C6_FinalStepIsLast ==
    /\ Cardinality({ i \in DOMAIN reasoning_steps : IsFinalStep(reasoning_steps[i]) }) <= 1
    /\ \A i \in DOMAIN reasoning_steps :
          IsFinalStep(reasoning_steps[i]) => i = Len(reasoning_steps)

\* a returned run of three steps whose last one is the final answer
C6_Witness ==
    /\ Returned
    /\ Len(Res.reasoning_steps) = 3
    /\ IsFinalStep(Res.reasoning_steps[3])
    /\ ~IsFinalStep(Res.reasoning_steps[1])

(* C7, as stated: a final answer parsed at iteration i >= 2 stops the loop *)
(* there, the response is exactly that final-answer text and 'completed'   *)
(* is true.                                                                *)
C7_Original ==
    \A i \in DOMAIN reasoning_steps :
        (Returned /\ IsFinalStep(reasoning_steps[i]) /\ i >= 2) =>
            /\ i = Len(reasoning_steps)
            /\ Res.response = reasoning_steps[i].observation[1]
            /\ Res.metadata.completed = TRUE

(* C7, amended: a final answer parsed at iteration i >= 2 stops the loop   *)
(* there (no further model call, no tool call in that iteration) and       *)
(* 'completed' is true; the response is exactly that final-answer text     *)
(* when the text is not empty.                                             *)
C7_FinalAnswerStops ==
    \A i \in DOMAIN reasoning_steps :
        (IsFinalStep(reasoning_steps[i]) /\ i >= 2) =>
            /\ i = Len(reasoning_steps)
            /\ Len(llm_calls) = i
            /\ \A k \in DOMAIN tool_calls : tool_calls[k].iteration < i
            /\ ~LoopCondition
            /\ Returned =>
                 /\ Res.iterations = i
                 /\ Res.metadata.completed = TRUE
                 /\ reasoning_steps[i].observation[1] # << >>
                      => Res.response = reasoning_steps[i].observation[1]

\* a final answer accepted at iteration 2 of 3, after an observation
C7_Witness ==
    /\ Returned
    /\ max_iterations = 3
    /\ Len(reasoning_steps) = 2
    /\ Truthy(reasoning_steps[1].observation)
    /\ IsFinalStep(reasoning_steps[2])
    /\ Res.response = << "answer" >>
    /\ Len(llm_calls) = 2

(* C8: for any text that holds an action label with a non-empty action     *)
(* input and, after them, a final-answer marker, the parsed decision is an *)
(* action with a non-empty input and no observation, never the final       *)
(* answer.                                                                 *)
C8_ActionPrecedence ==
    ( /\ pc = "parsed"
      /\ \E i \in 1..(Len(response_text) - 1) :
            /\ response_text[i] = LblAction /\ response_text[i + 1] = "web_search"
            /\ \E j \in (i + 2)..(Len(response_text) - 1) :
                  /\ response_text[j] = LblInput /\ response_text[j + 1] = "CMPE"
                  /\ \E f \in (j + 2)..Len(response_text) :
                        response_text[f] = LblFinal )
    => /\ parsed[1][1] # None
       /\ parsed[1][1] # Some(FinalAnswerAction)
       /\ Truthy(parsed[1][2])
       /\ parsed[1][3] = None

(* C9, as stated: a text with a final-answer marker and no action label    *)
(* parses to action 'Final Answer', no action input, and the trimmed text  *)
(* after the marker.                                                       *)
C9_Original ==
    ( /\ pc = "parsed"
      /\ LblFinal \in Range(response_text)
      /\ LblAction \notin Range(response_text) )
    => LET f == Min({ k \in DOMAIN response_text : response_text[k] = LblFinal })
       IN  parsed[1] = << Some(FinalAnswerAction), None,
                          Some(Strip(SubSeq(response_text, f + 1, Len(response_text)))) >>

(* C9, amended: the same, provided at least one character (white space     *)
(* counts) follows the first marker; a marker that ends the text gives no  *)
(* final-answer decision: action None and third component None.            *)
C9_FinalAnswerOnly ==
    ( /\ pc = "parsed"
      /\ LblFinal \in Range(response_text)
      /\ LblAction \notin Range(response_text) )
    => LET f == Min({ k \in DOMAIN response_text : response_text[k] = LblFinal })
       IN  IF f < Len(response_text)
           THEN parsed[1] = << Some(FinalAnswerAction), None,
                               Some(Strip(SubSeq(response_text, f + 1,
                                                 Len(response_text)))) >>
           ELSE parsed[1][1] = None /\ parsed[1][3] = None

\* "hmm\nFinal Answer: answer" parses to the final answer "answer"
C9_Witness ==
    /\ pc = "parsed"
    /\ response_text = << "hmm", NL, LblFinal, "answer" >>
    /\ parsed[1] = << Some(FinalAnswerAction), None, Some(<< "answer" >>) >>

(* C10: when generate raises at iteration i, run() still returns; an error *)
(* step for iteration i is the last entry of reasoning_steps, the model is *)
(* not called again, and the response is synthesized from the best         *)
(* observation of the iterations before i when there is one.               *)
C10_ModelErrorStops ==
    loop_exit = "error" =>
      LET n        == Len(reasoning_steps)
          observed == { k \in 1..(n - 1) : Truthy(reasoning_steps[k].observation) }
          marked   == { k \in observed :
                          MostRelevant \in Range(reasoning_steps[k].observation[1]) }
          best     == IF marked # {} THEN Min(marked) ELSE Min(observed)
      IN  /\ n >= 1
          /\ reasoning_steps[n].kind = "error"
          /\ reasoning_steps[n].iteration = iteration
          /\ Cardinality(ErrorSteps(reasoning_steps)) = 1
          /\ Len(llm_calls) = iteration
          /\ llm_calls[iteration].iteration = iteration
          /\ ~LoopCondition
          /\ pc \in { "loop", "returned" }
          /\ pc = "returned" =>
               /\ result # None
               /\ Res.reasoning_steps = reasoning_steps
               /\ observed # {} =>
                    Res.response =
                      _format_observation_as_answer(reasoning_steps[best].observation[1])

\* the third model call raised after two different observations; the
\* response comes from the marked one, which is the second
C10_Witness ==
    /\ Returned
    /\ loop_exit = "error"
    /\ iteration = 3
    /\ Truthy(reasoning_steps[1].observation)
    /\ Truthy(reasoning_steps[2].observation)
    /\ MostRelevant \notin Range(reasoning_steps[1].observation[1])
    /\ MostRelevant \in Range(reasoning_steps[2].observation[1])
    /\ Res.response = << "CMPE" >>


\* the k-th tool call of the run is the web search made in place of an
\* irrelevant database result, in the same iteration
IsFallbackCall(k) ==
    /\ k > 1
    /\ tool_calls[k].tool = "web_search"
    /\ tool_calls[k - 1].tool = "database_query"
    /\ tool_calls[k - 1].iteration = tool_calls[k].iteration

(* C11: when the execute of a dispatched tool raises, the exception is     *)
(* caught for that call and becomes a descriptive observation on the step  *)
(* of that iteration; no error step is recorded for it and the loop goes   *)
(* on to the next iteration when the budget allows.                        *)
C11_ToolErrorBecomesObservation ==
    \A k \in DOMAIN tool_calls :
        tool_calls[k].raised =>
            LET it == tool_calls[k].iteration
            IN  /\ it \in DOMAIN reasoning_steps
                /\ reasoning_steps[it].kind = "step"
                /\ reasoning_steps[it].iteration = it
                /\ reasoning_steps[it].observation =
                     Some(IF IsFallbackCall(k)
                          THEN << CouldNotFind >>
                          ELSE << ErrorExecuting, tool_calls[k].tool, ":" >>
                                 \o tool_calls[k].output)
                /\ reasoning_steps[it].observation # Some(<< >>)
                /\ ErrorSteps(SubSeq(reasoning_steps, 1, it)) = {}
                /\ (pc = "loop" /\ it = Len(reasoning_steps)
                      /\ iteration < max_iterations) => LoopCondition

\* the database lookup of iteration 1 raised, and the run went on to a
\* second iteration before it returned
C11_Witness ==
    /\ Returned
    /\ tool_calls # << >>
    /\ tool_calls[1].raised
    /\ tool_calls[1].tool = "database_query"
    /\ Len(reasoning_steps) >= 2
    /\ reasoning_steps[1].observation =
         Some(<< ErrorExecuting, "database_query", ":", "tool failed" >>)
    /\ reasoning_steps[2].kind = "step"


(* C12: every run() that completes (accepted final answer, exhaustion or   *)
(* model error) appends exactly one (user, assistant) pair to              *)
(* conversation_history: the user turn holds the query and the assistant   *)
(* turn's content equals the 'response' returned to the caller.  Stated   *)
(* for orchestrators with max_iterations >= 1.                             *)
C12_PairAppended ==
    [][ (pc = "loop" /\ pc' = "returned" /\ max_iterations >= 1) =>
          conversation_history' =
            conversation_history
              \o << [ role |-> "user", content |-> query ],
                    [ role |-> "assistant", content |-> result'[1].response ] >>
      ]_vars


(* C13: two calls of get_conversation_history() with no run() between them *)
(* return equal lists that are independent of each other and of the        *)
(* orchestrator: adding or removing turns of one, or changing the role or  *)
(* content of one of its turns, shows neither in the other list nor in the *)
(* internal history.                                                       *)
C13_SnapshotsIndependent ==
    [][ /\ (Len(snapshots') = Len(snapshots) + 1) =>
             /\ conversation_history' = conversation_history
             /\ View(snapshots'[Len(snapshots')], conversation_history')
                  = conversation_history'
             /\ (Len(snapshots) = 1 /\ MutationsMade = 0) =>
                  View(snapshots'[1], conversation_history')
                    = View(snapshots'[2], conversation_history')
        /\ (Len(snapshots') = Len(snapshots)) =>
             /\ conversation_history' = conversation_history
             /\ \A s, t \in DOMAIN snapshots :
                  ( /\ s # t
                    /\ View(snapshots'[s], conversation_history')
                         # View(snapshots[s], conversation_history) )
                  => View(snapshots'[t], conversation_history')
                       = View(snapshots[t], conversation_history)
      ]_vars


\* the k-th tool call is a database lookup that returned an observation
\* holding none of the significant terms of the query, of which there is one
\* at least
NoTermFound(k) ==
    /\ tool_calls[k].tool = "database_query"
    /\ ~tool_calls[k].raised
    /\ query_words(query) # {}
    /\ matches(query, tool_calls[k].output) = 0

(* C14, as stated: when a database_query observation holds none of the     *)
(* query's significant terms, the step of that iteration ends with action  *)
(* 'web_search' and an action_input that holds the institution name 'SJSU'.*)
C14_Original ==
    \A k \in DOMAIN tool_calls :
        NoTermFound(k) =>
            LET step == reasoning_steps[tool_calls[k].iteration]
            IN  /\ step.action = Some("web_search")
                /\ step.action_input # None
                /\ "SJSU" \in Range(step.action_input[1])

(* C14, amended: in that case web_search is called in the same iteration   *)
(* with a reformulated query that holds 'SJSU'; when that call returns,    *)
(* the step ends with action 'web_search', that query as action_input and  *)
(* the web result as observation; when it raises, the step keeps action    *)
(* 'database_query' and its input, with a fixed "couldn't find"            *)
(* observation.                                                            *)
C14_RelevanceFallback ==
    \A k \in DOMAIN tool_calls :
        NoTermFound(k) =>
            LET step == reasoning_steps[tool_calls[k].iteration]
            IN  /\ (k + 1) \in DOMAIN tool_calls
                /\ IsFallbackCall(k + 1)
                /\ tool_calls[k + 1].input # None
                /\ "SJSU" \in Range(tool_calls[k + 1].input[1])
                /\ IF tool_calls[k + 1].raised
                   THEN /\ step.action = Some("database_query")
                        /\ step.action_input = tool_calls[k].input
                        /\ step.observation = Some(<< CouldNotFind >>)
                   ELSE /\ step.action = Some("web_search")
                        /\ step.action_input = tool_calls[k + 1].input
                        /\ step.observation = Some(tool_calls[k + 1].output)

\* the lookup for "what is CMPE prerequisites" returned "parking": the step
\* ends as a web search for "SJSU what is CMPE prerequisites"
C14_Witness ==
    /\ Returned
    /\ query = << "what", "is", "CMPE", "prerequisites" >>
    /\ Len(tool_calls) >= 2
    /\ NoTermFound(1)
    /\ tool_calls[1].output = << "parking" >>
    /\ ~tool_calls[2].raised
    /\ reasoning_steps[1].action = Some("web_search")
    /\ reasoning_steps[1].action_input =
         Some(<< "SJSU", "what", "is", "CMPE", "prerequisites" >>)


(* C15: after any sequence of run() and reset_conversation() calls the     *)
(* history holds exactly two turns for each run completed since the last   *)
(* reset, user then assistant in turn, the last pair being that of the     *)
(* last run; after reset_conversation() it is empty.                       *)
C15_HistoryInPairs ==
    /\ Len(conversation_history) = 2 * runs_since_reset
    /\ \A k \in DOMAIN conversation_history :
          conversation_history[k].role =
            (IF k % 2 = 1 THEN "user" ELSE "assistant")
    /\ (pc = "returned" /\ conversation_history # << >>) =>
          conversation_history[Len(conversation_history) - 1].content = query
    /\ runs_since_reset = 0 => conversation_history = << >>

\* a run, a reset and a second run: one pair, that of the second run
C15_Witness ==
    /\ pc = "returned"
    /\ runs = 2
    /\ runs_since_reset = 1
    /\ Len(conversation_history) = 2
    /\ conversation_history[1] = [ role |-> "user", content |-> query ]
    /\ conversation_history[2].role = "assistant"


(* C16, as stated: an exception raised by a tool during an iteration is    *)
(* recorded as an error step and ends the loop at that iteration.          *)
C16_Original ==
    \A k \in DOMAIN tool_calls :
        tool_calls[k].raised =>
            /\ reasoning_steps[tool_calls[k].iteration].kind = "error"
            /\ Len(reasoning_steps) = tool_calls[k].iteration
            /\ ~LoopCondition

(* C16, amended: an exception raised by a tool during an iteration does    *)
(* not crash run(), is not recorded as an error step and does not end the  *)
(* loop: error steps come from model calls only, and a run whose tool      *)
(* raised before the last iteration goes on to a later iteration.          *)
C16_ToolErrorNotFatal ==
    /\ \A i \in ErrorSteps(reasoning_steps) :
          \A k \in DOMAIN tool_calls : tool_calls[k].iteration # i
    /\ \A k \in DOMAIN tool_calls :
          tool_calls[k].raised =>
              LET it == tool_calls[k].iteration
              IN  /\ reasoning_steps[it].kind = "step"
                  /\ loop_exit # "running" => Len(reasoning_steps) > it
                  /\ pc = "returned" =>
                       /\ result # None
                       /\ it < max_iterations => Len(Res.reasoning_steps) > it

\* the web search of iteration 1 raised; the run made its three iterations
C16_Witness ==
    /\ Returned
    /\ max_iterations = 3
    /\ tool_calls # << >>
    /\ tool_calls[1].raised
    /\ tool_calls[1].tool = "web_search"
    /\ tool_calls[1].iteration = 1
    /\ Res.iterations = 3
    /\ ErrorSteps(Res.reasoning_steps) = {}


(* C17: a failure of the provider call inside generate of a shipped        *)
(* client reaches the loop as an exception: the run records an error step  *)
(* for that iteration and does not call the model again.                   *)
C17_ProviderFailureStops ==
    \A i \in DOMAIN llm_calls :
        llm_calls[i].provider_failed =>
            /\ reasoning_steps[i].kind = "error"
            /\ Len(llm_calls) = i
            /\ ~LoopCondition


\* the tool calls of iteration it, and the action dispatched in it
CallsOf(it) == { j \in DOMAIN tool_calls : tool_calls[j].iteration = it }
Dispatched(it) == ActionAfterOverride(llm_calls[it].parsed[1], it)
\* the relevance check on the k-th call, with the history of that run
JudgedIrrelevant(k) ==
    /\ ~tool_calls[k].raised
    /\ should_fallback(query, tool_calls[k].output,
                       llm_calls[tool_calls[k].iteration].conversation_history)

C19_NothingFoundFallsBack ==
    ( /\ pc = "judged"
      /\ query_words(query) # {}
      /\ \/ NoInfoFound \in Range(db_observation)
         \/ NoRelevantInfo \in Range(db_observation) )
    => fallback[1].should_fallback

\* the significant terms of the query judged, and those found in the
\* observation
SignificantTerms == Cardinality(query_words(query))
TermsFound == matches(query, db_observation)

(* C20, as stated: for an observation that does not signal "nothing        *)
(* found", the result is judged irrelevant exactly when 2m < n, for n >= 1 *)
(* significant terms of which m are found; not with 2m = n, not with n = 0.*)
C20_Original ==
    (pc = "judged" /\ NoInfoFound \notin Range(db_observation)) =>
        (fallback[1].should_fallback
           <=> (SignificantTerms >= 1 /\ 2 * TermsFound < SignificantTerms))

(* C20, amended: the keyword trigger fires exactly when n >= 1 and 2m < n, *)
(* and then the result is judged irrelevant.  With an empty history the    *)
(* result is judged irrelevant in no other case; with turns in the history *)
(* and a query of five words at most it is also judged irrelevant when the *)
(* conversation trigger fires.                                             *)
C20_KeywordTrigger ==
    (pc = "judged" /\ NoInfoFound \notin Range(db_observation)) =>
        LET half == SignificantTerms >= 1 /\ 2 * TermsFound < SignificantTerms
        IN  /\ fallback[1].fallback_reason = "query terms not in results" <=> half
            /\ half => fallback[1].should_fallback
            /\ conversation_history = << >> =>
                 (fallback[1].should_fallback <=> half)
            /\ (fallback[1].should_fallback /\ ~half) =>
                 /\ fallback[1].fallback_reason = "conversation context not in results"
                 /\ conversation_history # << >>
                 /\ WordCount(query) <= VagueQueryWords

\* "CMPE prerequisites" against an observation holding "CMPE" only, no
\* history: n = 2, m = 1, no fallback
C20_Witness ==
    /\ pc = "judged"
    /\ query = << "CMPE", "prerequisites" >>
    /\ db_observation = << MostRelevant, "CMPE" >>
    /\ conversation_history = << >>
    /\ SignificantTerms = 2
    /\ TermsFound = 1
    /\ ~fallback[1].should_fallback


\* the steps recorded for iteration it
StepsOf(it) == { i \in DOMAIN reasoning_steps : reasoning_steps[i].iteration = it }

\* the running prompt once the step of iteration it was appended to it: the
\* prompt of the next model call, or the current one after the last call
PromptAfter(it) ==
    IF (it + 1) \in DOMAIN llm_calls
    THEN llm_calls[it + 1].user_prompt
    ELSE user_prompt

(* C21: when the fallback fires and its web search returns, the step of    *)
(* that iteration is rewritten in place: it ends with action 'web_search', *)
(* the reformulated query as action_input and the web result as            *)
(* observation; no second step is recorded for the iteration, and the      *)
(* running prompt grows by the block of that rewritten step only, so the   *)
(* database observation is neither on the step nor in the prompt.          *)
C21_FallbackInPlace ==
    \A k \in DOMAIN tool_calls :
        (IsFallbackCall(k) /\ ~tool_calls[k].raised) =>
            LET it   == tool_calls[k].iteration
                step == reasoning_steps[it]
                web  == Step(it, llm_calls[it].response, Some("web_search"),
                             Some(web_search_query(query,
                                     llm_calls[it].conversation_history)),
                             Some(tool_calls[k].output))
            IN  /\ step = web
                /\ tool_calls[k].input = step.action_input
                /\ StepsOf(it) = { it }
                /\ Len(reasoning_steps) = iteration
                /\ PromptAfter(it) = _update_prompt(llm_calls[it].user_prompt, web)
                /\ (tool_calls[k - 1].output # tool_calls[k].output) =>
                     step.observation # Some(tool_calls[k - 1].output)

\* the lookup of iteration 1 returned "parking" for a question on CMPE, the
\* web search in its place returned a summary, and a second model call was
\* made with the prompt that holds the summary and not "parking"
C21_Witness ==
    /\ Returned
    /\ Len(tool_calls) >= 2
    /\ IsFallbackCall(2)
    /\ tool_calls[1].iteration = 1
    /\ tool_calls[1].output = << "parking" >>
    /\ tool_calls[2].output = << SummaryLbl, "CMPE" >>
    /\ ~tool_calls[2].raised
    /\ llm_calls[1].response = << LblFinal, "answer" >>
    /\ Len(llm_calls) >= 2
    /\ reasoning_steps[1].observation = Some(<< SummaryLbl, "CMPE" >>)
    /\ "parking" \notin Range(llm_calls[2].user_prompt)


(* C22: when the web search of the fallback raises, nothing propagates and *)
(* no error step is recorded: the step of that iteration is an ordinary    *)
(* step whose observation is the fixed "couldn't find ... check sjsu.edu   *)
(* or contact the university" message, that message is what the running    *)
(* prompt receives, no final answer is set, and the loop goes on to the    *)
(* next iteration when the budget allows.                                  *)
C22_FallbackFailureDegrades ==
    \A k \in DOMAIN tool_calls :
        (IsFallbackCall(k) /\ tool_calls[k].raised) =>
            LET it   == tool_calls[k].iteration
                step == reasoning_steps[it]
            IN  /\ StepsOf(it) = { it }
                /\ step.kind = "step"
                /\ step.observation = Some(<< CouldNotFind >>)
                /\ ErrorSteps(SubSeq(reasoning_steps, 1, it)) = {}
                /\ PromptAfter(it) = _update_prompt(llm_calls[it].user_prompt, step)
                /\ LblObs \in Range(PromptAfter(it))
                /\ CouldNotFind \in Range(PromptAfter(it))
                /\ (it = Len(reasoning_steps) /\ pc = "loop") =>
                     /\ final_answer = None
                     /\ loop_exit = "running"
                     /\ (it < max_iterations => LoopCondition)
                /\ (it < max_iterations /\ pc = "returned") =>
                     (it + 1) \in DOMAIN llm_calls

\* the web search made in place of the lookup of iteration 1 raised, and the
\* model was called a second time before the run returned
C22_Witness ==
    /\ Returned
    /\ Len(tool_calls) >= 2
    /\ IsFallbackCall(2)
    /\ tool_calls[2].iteration = 1
    /\ tool_calls[2].raised
    /\ reasoning_steps[1].observation = Some(<< CouldNotFind >>)
    /\ Len(llm_calls) >= 2
    /\ reasoning_steps[2].kind = "step"


\* the steps of the returned run that hold a non-empty observation, and
\* those of them whose observation carries the marker
Observed == { i \in DOMAIN reasoning_steps :
                reasoning_steps[i].kind = "step"
                /\ reasoning_steps[i].observation # None
                /\ reasoning_steps[i].observation[1] # << >> }
Marked   == { i \in Observed :
                MostRelevant \in Range(reasoning_steps[i].observation[1]) }
\* the response made of the observation of step i: the formatter's text,
\* which is never empty
FormattedFrom(i) ==
    _format_observation_as_answer(reasoning_steps[i].observation[1])
\* the run returned after a loop that accepted no final answer and recorded
\* one step at least
EndedUnanswered ==
    /\ Returned
    /\ loop_exit # "final"
    /\ reasoning_steps # << >>

(* C23, as stated: when the loop ends without an accepted final answer,    *)
(* the response is formatted from the earliest observation that carries    *)
(* the marker, else from the earliest non-empty observation; when no step  *)
(* has an observation, the response is the thought text of the last model  *)
(* output.                                                                 *)
C23_Original ==
    EndedUnanswered =>
        IF Marked # {} THEN Res.response = FormattedFrom(Min(Marked))
        ELSE IF Observed # {} THEN Res.response = FormattedFrom(Min(Observed))
        ELSE LET thoughts == NonErrorSteps(reasoning_steps)
             IN  /\ thoughts # {}
                 /\ Res.response =
                      reasoning_steps[CHOOSE i \in thoughts :
                                        \A j \in thoughts : j <= i].thought

(* C23, amended: the choice of observation is as stated; when no step has  *)
(* an observation, the response is the thought of the last recorded entry  *)
(* if that entry is an ordinary step with a non-empty thought, the fixed   *)
(* apology if its thought is empty, and 'Unable to generate response' if   *)
(* the last entry is an error step, whatever earlier thoughts there were.  *)
C23_BestObservationChosen ==
    EndedUnanswered =>
        IF Marked # {} THEN Res.response = FormattedFrom(Min(Marked))
        ELSE IF Observed # {} THEN Res.response = FormattedFrom(Min(Observed))
        ELSE LET last == reasoning_steps[Len(reasoning_steps)]
             IN  Res.response =
                   IF last.kind = "error" THEN << UnableToGenerate >>
                   ELSE IF last.thought = << >> THEN << Apology >>
                   ELSE last.thought

\* an exhausted run whose first observation (a web summary) has no marker
\* and whose second one (a database result) has it: the response is made of
\* the second
C23_Witness ==
    /\ EndedUnanswered
    /\ loop_exit = "running"
    /\ Len(reasoning_steps) >= 2
    /\ Observed = DOMAIN reasoning_steps
    /\ 1 \notin Marked
    /\ 2 \in Marked
    /\ reasoning_steps[1].observation = Some(<< SummaryLbl, "CMPE" >>)
    /\ Res.response = << "CMPE" >>


\* the model output of iteration i came back (generate did not raise) and
\* holds neither an "Action:" label nor a "Final Answer:" marker
Undecided(i) ==
    /\ ~llm_calls[i].raised
    /\ LblAction \notin Range(llm_calls[i].response)
    /\ LblFinal \notin Range(llm_calls[i].response)

\* what run() does with such an output: an ordinary step without action or
\* observation, no tool call in that iteration, no error step, and the loop
\* neither answered nor left
TreatedAsNoDecision(i) ==
    /\ StepsOf(i) = { i }
    /\ reasoning_steps[i].kind = "step"
    /\ reasoning_steps[i].thought = llm_calls[i].response
    /\ reasoning_steps[i].action = None
    /\ reasoning_steps[i].observation = None
    /\ CallsOf(i) = {}
    /\ ErrorSteps(SubSeq(reasoning_steps, 1, i)) = {}
    /\ (i = Len(reasoning_steps) /\ pc = "loop") =>
         /\ final_answer = None
         /\ loop_exit = "running"
         /\ (i < max_iterations => LoopCondition)
    /\ (i < max_iterations /\ pc = "returned") => (i + 1) \in DOMAIN llm_calls

C25_DefaultInput ==
    ( /\ pc = "parsed"
      /\ \E i \in 1..(Len(response_text) - 1) :
            /\ response_text[i] = LblAction /\ response_text[i + 1] = "web_search"
            /\ \A f \in 1..i : response_text[f] # LblFinal
      /\ LblInput \notin Range(response_text) )
    => /\ parsed[1][1] # None
       /\ parsed[1][1] # Some(FinalAnswerAction)
       /\ parsed[1][2] = Some(DefaultActionInput)
       /\ parsed[1][3] = None


\* the history as it was when the current (or the last) run started: the
\* history itself during the loop, the history without the two turns of the
\* run once it has returned
HistoryAtStart ==
    IF pc = "returned"
    THEN SubSeq(conversation_history, 1, Len(conversation_history) - 2)
    ELSE conversation_history

(* C26: the history is read-only during the loop: every model call of a    *)
(* run receives the history the run started with, every relevance check    *)
(* of the run is made against that same history, and the history differs   *)
(* from it only once the run has returned, by the two turns appended after *)
(* the loop.                                                               *)
C26_HistoryReadOnlyInLoop ==
    (pc = "loop" \/ (Returned /\ runs_since_reset >= 1)) =>
        /\ \A i \in DOMAIN llm_calls :
              llm_calls[i].conversation_history = HistoryAtStart
        /\ \A k \in DOMAIN tool_calls :
              (tool_calls[k].tool = "database_query" /\ ~tool_calls[k].raised) =>
                  ( ((k + 1) \in DOMAIN tool_calls /\ IsFallbackCall(k + 1))
                    <=> should_fallback(query, tool_calls[k].output, HistoryAtStart) )
        /\ Returned =>
              /\ Len(conversation_history) = Len(HistoryAtStart) + 2
              /\ conversation_history[Len(conversation_history) - 1] =
                   [ role |-> "user", content |-> query ]

\* a run of two model calls or more and a relevance check has returned:
\* both calls received the empty history, which now holds the two turns
C26_Witness ==
    /\ Returned
    /\ runs_since_reset = 1
    /\ Len(llm_calls) >= 2
    /\ llm_calls[1].conversation_history = << >>
    /\ llm_calls[2].conversation_history = << >>
    /\ \E k \in DOMAIN tool_calls :
          tool_calls[k].tool = "database_query" /\ ~tool_calls[k].raised
    /\ Len(conversation_history) = 2


\* the block the prompt receives for a recorded step: its thought, then its
\* action, action input and observation when present, then the invitation
\* to continue
BlockOf(step) ==
    << NL, NL, LblThought >> \o step.thought
      \o (IF step.action = None THEN << >>
          ELSE << NL, LblAction, step.action[1] >>)
      \o (IF step.action_input \in { None, Some(<< >>) } THEN << >>
          ELSE << NL, LblInput >> \o step.action_input[1])
      \o (IF step.observation \in { None, Some(<< >>) } THEN << >>
          ELSE << NL, LblObs >> \o step.observation[1])
      \o << NL, NL, ContinueLbl >>

(* C27: the running prompt is append-only within a run: the prompt of the  *)
(* model call of iteration i+1 is the prompt of iteration i followed by    *)
(* the block of the step recorded for iteration i, with the action, input  *)
(* and observation the step ended with (after the first-iteration override *)
(* and the fallback substitution); the first prompt is the one built from  *)
(* the query, and the system prompt is the same for every call.            *)
C27_PromptAppendOnly ==
    \A i \in DOMAIN llm_calls :
        /\ llm_calls[i].system_prompt = llm_calls[1].system_prompt
        /\ (i + 1) \in DOMAIN llm_calls =>
              LET before == llm_calls[i].user_prompt
                  after  == llm_calls[i + 1].user_prompt
              IN  /\ Len(after) > Len(before)
                  /\ SubSeq(after, 1, Len(before)) = before
                  /\ SubSeq(after, Len(before) + 1, Len(after))
                       = BlockOf(reasoning_steps[i])
        /\ i = 1 => /\ llm_calls[1].user_prompt[1] = FewShotExample
                    /\ llm_calls[1].user_prompt[Len(llm_calls[1].user_prompt)]
                         = LblThought

\* the first output was a final answer, overridden to a database lookup
\* whose result was replaced by a web search: the second prompt ends with
\* the block of that web search
C27_Witness ==
    /\ Returned
    /\ Len(llm_calls) >= 2
    /\ llm_calls[1].response = << LblFinal, "answer" >>
    /\ reasoning_steps[1].action = Some("web_search")
    /\ reasoning_steps[1].observation = Some(<< SummaryLbl, "CMPE" >>)
    /\ Len(llm_calls[2].user_prompt) > Len(llm_calls[1].user_prompt)
    /\ SubSeq(llm_calls[2].user_prompt, Len(llm_calls[1].user_prompt) + 1,
              Len(llm_calls[2].user_prompt))
         = << NL, NL, LblThought, LblFinal, "answer", NL, LblAction, "web_search",
              NL, LblInput, "SJSU", "what", "is", "CMPE", "prerequisites",
              NL, LblObs, SummaryLbl, "CMPE", NL, NL, ContinueLbl >>


\* prompts handled since the conversation was last cleared: each adds a
\* user and an assistant message to st.session_state.messages
PromptsHandled == Len(session_state.messages) \div 2

(* C28: in the Streamlit chat flow, handling one prompt adds exactly one    *)
(* user turn and one assistant turn to the conversation_history of the     *)
(* session: after k prompts without clearing it holds exactly 2k turns.    *)
C28_TwoTurnsPerPrompt ==
    pc = "chat" =>
        Len(session_state.conversation_history) = 2 * PromptsHandled


(* C29: each started iteration appends exactly one entry to                *)
(* reasoning_steps, an ordinary step or an error step, that carries the    *)
(* number of the iteration: at any point of a run the list has 'iteration' *)
(* entries numbered 1..n in order, and in the result returned              *)
(* len(reasoning_steps) equals 'iterations'.                               *)
C29_OneEntryPerIteration ==
    /\ pc \in { "loop", "returned" } =>
         /\ Len(reasoning_steps) = iteration
         /\ \A k \in DOMAIN reasoning_steps :
               /\ reasoning_steps[k].iteration = k
               /\ reasoning_steps[k].kind \in { "step", "error" }
         /\ Len(llm_calls) = iteration
    /\ Returned =>
         /\ Len(Res.reasoning_steps) = Res.iterations
         /\ \A k \in DOMAIN Res.reasoning_steps :
               Res.reasoning_steps[k].iteration = k

\* a returned run of three iterations: the first made two tool calls (the
\* lookup and the web search in its place) and has one entry, the third is
\* the error step of a model call that raised
C29_Witness ==
    /\ Returned
    /\ Res.iterations = 3
    /\ Len(Res.reasoning_steps) = 3
    /\ Cardinality(CallsOf(1)) = 2
    /\ Res.reasoning_steps[1].kind = "step"
    /\ Res.reasoning_steps[2].kind = "step"
    /\ Res.reasoning_steps[3].kind = "error"
    /\ Res.reasoning_steps[3].iteration = 3


\* run() returned a final answer of the model as its response: the loop was
\* left at line 103 with the text after the marker, which is the response
AnswerAccepted ==
    /\ Returned
    /\ loop_exit = "final"
    /\ IsFinalStep(reasoning_steps[Len(reasoning_steps)])
    /\ Truthy(reasoning_steps[Len(reasoning_steps)].observation)
    /\ Res.response = reasoning_steps[Len(reasoning_steps)].observation[1]

\* a tool call was made in an iteration before the last one of the run
ToolUsedEarlier ==
    \E k \in DOMAIN tool_calls : tool_calls[k].iteration < Res.iterations

(* C30, as stated: whenever run() accepts a final answer of the model, one *)
(* tool call at least (database_query or web_search) was executed in an    *)
(* earlier iteration of the same run, whatever the model outputs were.     *)
C30_Original == AnswerAccepted => ToolUsedEarlier

(* C30, amended: a final answer is accepted at iteration 2 or later; when  *)
(* the first output was a final answer, the database lookup on the raw     *)
(* query was the first tool call, in iteration 1; a tool was used earlier  *)
(* in the run exactly when an earlier output named a tool or the first     *)
(* output was a final answer, so that after outputs without a usable       *)
(* action a final answer is accepted with no tool call at all.             *)
C30_ToolUsageEnforced ==
    AnswerAccepted =>
        LET n       == Len(reasoning_steps)
            said(i) == llm_calls[i].parsed[1][1]
        IN  /\ Res.iterations >= 2
            /\ Res.iterations = n
            /\ said(1) = Some(FinalAnswerAction) =>
                  /\ tool_calls # << >>
                  /\ tool_calls[1].iteration = 1
                  /\ tool_calls[1].tool = "database_query"
                  /\ tool_calls[1].input = Some(query)
            /\ ToolUsedEarlier <=>
                  \E i \in 1..(n - 1) :
                      \/ said(i) \in { Some(t) : t \in tools }
                      \/ i = 1 /\ said(1) = Some(FinalAnswerAction)

\* "hmm", then a web search, then a final answer accepted at iteration 3:
\* the only tool call of the run is that of iteration 2
C30_Witness ==
    /\ AnswerAccepted
    /\ Res.iterations = 3
    /\ llm_calls[1].response = << "hmm" >>
    /\ Len(tool_calls) = 1
    /\ tool_calls[1].iteration = 2
    /\ tool_calls[1].tool = "web_search"
    /\ Res.response = << "answer" >>

===========================================================================
